---------------------------- MODULE Spec2Model ----------------------------
(***************************************************************************)
(* Model of package runtime/metrics, file description.go: the catalog of   *)
(* metric descriptions (allDesc) and its accessor All().                   *)
(*                                                                         *)
(* Go strings are modelled as sequences of one-character strings so that   *)
(* the name grammar, prefixes, suffixes and byte-wise ordering can be      *)
(* computed.  A Go slice is modelled as a header [ptr, len, cap] that      *)
(* refers to a backing array held in heap; All() returns the header of     *)
(* allDesc, so the returned slice and allDesc share one backing array.     *)
(***************************************************************************)
EXTENDS Integers, Sequences, FiniteSets, TLC

\* ---------------------------------------------------------------- bounds
\* Number of goroutines that call All() concurrently.
NumCallers == 3
\* Number of slices returned by All() a caller keeps at the same time.
MaxResults == 2
\* Number of writes callers make through returned slices (SpecMut only).
MaxWrites == 1

Callers == 1..NumCallers

\* ------------------------------------------------------------ value kinds
\* The ValueKind variants the table uses.
KindUint64 == "KindUint64"
KindFloat64Histogram == "KindFloat64Histogram"

\* --------------------------------------------------------------- catalog
\* One definition per entry of the allDesc literal: its Name, its
\* Description (the concatenation of the string literals) and the entry.

\* allDesc[0]: "/gc/cycles/automatic:gc-cycles"
gc_cycles_automatic_gc_cycles_Name ==
  <<"/", "g", "c", "/", "c", "y", "c", "l", "e", "s", "/", "a", "u", "t", "o", "m", "a",
    "t", "i", "c", ":", "g", "c", "-", "c", "y", "c", "l", "e", "s">>
gc_cycles_automatic_gc_cycles_Description ==
  <<"C", "o", "u", "n", "t", " ", "o", "f", " ", "c", "o", "m", "p", "l", "e", "t", "e",
    "d", " ", "G", "C", " ", "c", "y", "c", "l", "e", "s", " ", "g", "e", "n", "e", "r",
    "a", "t", "e", "d", " ", "b", "y", " ", "t", "h", "e", " ", "G", "o", " ", "r", "u",
    "n", "t", "i", "m", "e", ".">>
gc_cycles_automatic_gc_cycles ==
  [Name |-> gc_cycles_automatic_gc_cycles_Name,
   Description |-> gc_cycles_automatic_gc_cycles_Description,
   Kind |-> KindUint64,
   Cumulative |-> TRUE]

\* allDesc[1]: "/gc/cycles/forced:gc-cycles"
gc_cycles_forced_gc_cycles_Name ==
  <<"/", "g", "c", "/", "c", "y", "c", "l", "e", "s", "/", "f", "o", "r", "c", "e", "d",
    ":", "g", "c", "-", "c", "y", "c", "l", "e", "s">>
gc_cycles_forced_gc_cycles_Description ==
  <<"C", "o", "u", "n", "t", " ", "o", "f", " ", "c", "o", "m", "p", "l", "e", "t", "e",
    "d", " ", "G", "C", " ", "c", "y", "c", "l", "e", "s", " ", "f", "o", "r", "c", "e",
    "d", " ", "b", "y", " ", "t", "h", "e", " ", "a", "p", "p", "l", "i", "c", "a", "t",
    "i", "o", "n", ".">>
gc_cycles_forced_gc_cycles ==
  [Name |-> gc_cycles_forced_gc_cycles_Name,
   Description |-> gc_cycles_forced_gc_cycles_Description,
   Kind |-> KindUint64,
   Cumulative |-> TRUE]

\* allDesc[2]: "/gc/cycles/total:gc-cycles"
gc_cycles_total_gc_cycles_Name ==
  <<"/", "g", "c", "/", "c", "y", "c", "l", "e", "s", "/", "t", "o", "t", "a", "l", ":",
    "g", "c", "-", "c", "y", "c", "l", "e", "s">>
gc_cycles_total_gc_cycles_Description ==
  <<"C", "o", "u", "n", "t", " ", "o", "f", " ", "a", "l", "l", " ", "c", "o", "m", "p",
    "l", "e", "t", "e", "d", " ", "G", "C", " ", "c", "y", "c", "l", "e", "s", ".">>
gc_cycles_total_gc_cycles ==
  [Name |-> gc_cycles_total_gc_cycles_Name,
   Description |-> gc_cycles_total_gc_cycles_Description,
   Kind |-> KindUint64,
   Cumulative |-> TRUE]

\* allDesc[3]: "/gc/heap/allocs-by-size:bytes"
gc_heap_allocs_by_size_bytes_Name ==
  <<"/", "g", "c", "/", "h", "e", "a", "p", "/", "a", "l", "l", "o", "c", "s", "-", "b",
    "y", "-", "s", "i", "z", "e", ":", "b", "y", "t", "e", "s">>
gc_heap_allocs_by_size_bytes_Description ==
  <<"D", "i", "s", "t", "r", "i", "b", "u", "t", "i", "o", "n", " ", "o", "f", " ", "h",
    "e", "a", "p", " ", "a", "l", "l", "o", "c", "a", "t", "i", "o", "n", "s", " ", "b",
    "y", " ", "a", "p", "p", "r", "o", "x", "i", "m", "a", "t", "e", " ", "s", "i", "z",
    "e", ".", " ", "N", "o", "t", "e", " ", "t", "h", "a", "t", " ", "t", "h", "i", "s",
    " ", "d", "o", "e", "s", " ", "n", "o", "t", " ", "i", "n", "c", "l", "u", "d", "e",
    " ", "t", "i", "n", "y", " ", "o", "b", "j", "e", "c", "t", "s", " ", "a", "s", " ",
    "d", "e", "f", "i", "n", "e", "d", " ", "b", "y", " ", "/", "g", "c", "/", "h", "e",
    "a", "p", "/", "t", "i", "n", "y", "/", "a", "l", "l", "o", "c", "s", ":", "o", "b",
    "j", "e", "c", "t", "s", ",", " ", "o", "n", "l", "y", " ", "t", "i", "n", "y", " ",
    "b", "l", "o", "c", "k", "s", ".">>
gc_heap_allocs_by_size_bytes ==
  [Name |-> gc_heap_allocs_by_size_bytes_Name,
   Description |-> gc_heap_allocs_by_size_bytes_Description,
   Kind |-> KindFloat64Histogram,
   Cumulative |-> TRUE]

\* allDesc[4]: "/gc/heap/allocs:bytes"
gc_heap_allocs_bytes_Name ==
  <<"/", "g", "c", "/", "h", "e", "a", "p", "/", "a", "l", "l", "o", "c", "s", ":", "b",
    "y", "t", "e", "s">>
gc_heap_allocs_bytes_Description ==
  <<"C", "u", "m", "u", "l", "a", "t", "i", "v", "e", " ", "s", "u", "m", " ", "o", "f",
    " ", "m", "e", "m", "o", "r", "y", " ", "a", "l", "l", "o", "c", "a", "t", "e", "d",
    " ", "t", "o", " ", "t", "h", "e", " ", "h", "e", "a", "p", " ", "b", "y", " ", "t",
    "h", "e", " ", "a", "p", "p", "l", "i", "c", "a", "t", "i", "o", "n", ".">>
gc_heap_allocs_bytes ==
  [Name |-> gc_heap_allocs_bytes_Name,
   Description |-> gc_heap_allocs_bytes_Description,
   Kind |-> KindUint64,
   Cumulative |-> TRUE]

\* allDesc[5]: "/gc/heap/allocs:objects"
gc_heap_allocs_objects_Name ==
  <<"/", "g", "c", "/", "h", "e", "a", "p", "/", "a", "l", "l", "o", "c", "s", ":", "o",
    "b", "j", "e", "c", "t", "s">>
gc_heap_allocs_objects_Description ==
  <<"C", "u", "m", "u", "l", "a", "t", "i", "v", "e", " ", "c", "o", "u", "n", "t", " ",
    "o", "f", " ", "h", "e", "a", "p", " ", "a", "l", "l", "o", "c", "a", "t", "i", "o",
    "n", "s", " ", "t", "r", "i", "g", "g", "e", "r", "e", "d", " ", "b", "y", " ", "t",
    "h", "e", " ", "a", "p", "p", "l", "i", "c", "a", "t", "i", "o", "n", ".", " ", "N",
    "o", "t", "e", " ", "t", "h", "a", "t", " ", "t", "h", "i", "s", " ", "d", "o", "e",
    "s", " ", "n", "o", "t", " ", "i", "n", "c", "l", "u", "d", "e", " ", "t", "i", "n",
    "y", " ", "o", "b", "j", "e", "c", "t", "s", " ", "a", "s", " ", "d", "e", "f", "i",
    "n", "e", "d", " ", "b", "y", " ", "/", "g", "c", "/", "h", "e", "a", "p", "/", "t",
    "i", "n", "y", "/", "a", "l", "l", "o", "c", "s", ":", "o", "b", "j", "e", "c", "t",
    "s", ",", " ", "o", "n", "l", "y", " ", "t", "i", "n", "y", " ", "b", "l", "o", "c",
    "k", "s", ".">>
gc_heap_allocs_objects ==
  [Name |-> gc_heap_allocs_objects_Name,
   Description |-> gc_heap_allocs_objects_Description,
   Kind |-> KindUint64,
   Cumulative |-> TRUE]

\* allDesc[6]: "/gc/heap/frees-by-size:bytes"
gc_heap_frees_by_size_bytes_Name ==
  <<"/", "g", "c", "/", "h", "e", "a", "p", "/", "f", "r", "e", "e", "s", "-", "b", "y",
    "-", "s", "i", "z", "e", ":", "b", "y", "t", "e", "s">>
gc_heap_frees_by_size_bytes_Description ==
  <<"D", "i", "s", "t", "r", "i", "b", "u", "t", "i", "o", "n", " ", "o", "f", " ", "f",
    "r", "e", "e", "d", " ", "h", "e", "a", "p", " ", "a", "l", "l", "o", "c", "a", "t",
    "i", "o", "n", "s", " ", "b", "y", " ", "a", "p", "p", "r", "o", "x", "i", "m", "a",
    "t", "e", " ", "s", "i", "z", "e", ".", " ", "N", "o", "t", "e", " ", "t", "h", "a",
    "t", " ", "t", "h", "i", "s", " ", "d", "o", "e", "s", " ", "n", "o", "t", " ", "i",
    "n", "c", "l", "u", "d", "e", " ", "t", "i", "n", "y", " ", "o", "b", "j", "e", "c",
    "t", "s", " ", "a", "s", " ", "d", "e", "f", "i", "n", "e", "d", " ", "b", "y", " ",
    "/", "g", "c", "/", "h", "e", "a", "p", "/", "t", "i", "n", "y", "/", "a", "l", "l",
    "o", "c", "s", ":", "o", "b", "j", "e", "c", "t", "s", ",", " ", "o", "n", "l", "y",
    " ", "t", "i", "n", "y", " ", "b", "l", "o", "c", "k", "s", ".">>
\* Variant of the entry below: Cumulative is left unset.
gc_heap_frees_by_size_bytes_NotCumulative ==
  [Name |-> gc_heap_frees_by_size_bytes_Name,
   Description |-> gc_heap_frees_by_size_bytes_Description,
   Kind |-> KindFloat64Histogram,
   Cumulative |-> FALSE]
gc_heap_frees_by_size_bytes ==
  [Name |-> gc_heap_frees_by_size_bytes_Name,
   Description |-> gc_heap_frees_by_size_bytes_Description,
   Kind |-> KindFloat64Histogram,
   Cumulative |-> TRUE]

\* allDesc[7]: "/gc/heap/frees:bytes"
gc_heap_frees_bytes_Name ==
  <<"/", "g", "c", "/", "h", "e", "a", "p", "/", "f", "r", "e", "e", "s", ":", "b", "y",
    "t", "e", "s">>
gc_heap_frees_bytes_Description ==
  <<"C", "u", "m", "u", "l", "a", "t", "i", "v", "e", " ", "s", "u", "m", " ", "o", "f",
    " ", "h", "e", "a", "p", " ", "m", "e", "m", "o", "r", "y", " ", "f", "r", "e", "e",
    "d", " ", "b", "y", " ", "t", "h", "e", " ", "g", "a", "r", "b", "a", "g", "e", " ",
    "c", "o", "l", "l", "e", "c", "t", "o", "r", ".">>
gc_heap_frees_bytes ==
  [Name |-> gc_heap_frees_bytes_Name,
   Description |-> gc_heap_frees_bytes_Description,
   Kind |-> KindUint64,
   Cumulative |-> TRUE]

\* allDesc[8]: "/gc/heap/frees:objects"
gc_heap_frees_objects_Name ==
  <<"/", "g", "c", "/", "h", "e", "a", "p", "/", "f", "r", "e", "e", "s", ":", "o", "b",
    "j", "e", "c", "t", "s">>
gc_heap_frees_objects_Description ==
  <<"C", "u", "m", "u", "l", "a", "t", "i", "v", "e", " ", "c", "o", "u", "n", "t", " ",
    "o", "f", " ", "h", "e", "a", "p", " ", "a", "l", "l", "o", "c", "a", "t", "i", "o",
    "n", "s", " ", "w", "h", "o", "s", "e", " ", "s", "t", "o", "r", "a", "g", "e", " ",
    "w", "a", "s", " ", "f", "r", "e", "e", "d", " ", "b", "y", " ", "t", "h", "e", " ",
    "g", "a", "r", "b", "a", "g", "e", " ", "c", "o", "l", "l", "e", "c", "t", "o", "r",
    ".", " ", "N", "o", "t", "e", " ", "t", "h", "a", "t", " ", "t", "h", "i", "s", " ",
    "d", "o", "e", "s", " ", "n", "o", "t", " ", "i", "n", "c", "l", "u", "d", "e", " ",
    "t", "i", "n", "y", " ", "o", "b", "j", "e", "c", "t", "s", " ", "a", "s", " ", "d",
    "e", "f", "i", "n", "e", "d", " ", "b", "y", " ", "/", "g", "c", "/", "h", "e", "a",
    "p", "/", "t", "i", "n", "y", "/", "a", "l", "l", "o", "c", "s", ":", "o", "b", "j",
    "e", "c", "t", "s", ",", " ", "o", "n", "l", "y", " ", "t", "i", "n", "y", " ", "b",
    "l", "o", "c", "k", "s", ".">>
gc_heap_frees_objects ==
  [Name |-> gc_heap_frees_objects_Name,
   Description |-> gc_heap_frees_objects_Description,
   Kind |-> KindUint64,
   Cumulative |-> TRUE]

\* allDesc[9]: "/gc/heap/goal:bytes"
\* Variant of the name below: "/gc/heap/goal:bytes//second"
gc_heap_goal_bytes_Name_EmptyUnitTerm ==
  <<"/", "g", "c", "/", "h", "e", "a", "p", "/", "g", "o", "a", "l", ":", "b", "y", "t",
    "e", "s", "/", "/", "s", "e", "c", "o", "n", "d">>
gc_heap_goal_bytes_Name ==
  <<"/", "g", "c", "/", "h", "e", "a", "p", "/", "g", "o", "a", "l", ":", "b", "y", "t",
    "e", "s">>
gc_heap_goal_bytes_Description ==
  <<"H", "e", "a", "p", " ", "s", "i", "z", "e", " ", "t", "a", "r", "g", "e", "t", " ",
    "f", "o", "r", " ", "t", "h", "e", " ", "e", "n", "d", " ", "o", "f", " ", "t", "h",
    "e", " ", "G", "C", " ", "c", "y", "c", "l", "e", ".">>
gc_heap_goal_bytes ==
  [Name |-> gc_heap_goal_bytes_Name,
   Description |-> gc_heap_goal_bytes_Description,
   Kind |-> KindUint64,
   Cumulative |-> FALSE]

\* allDesc[10]: "/gc/heap/objects:objects"
gc_heap_objects_objects_Name ==
  <<"/", "g", "c", "/", "h", "e", "a", "p", "/", "o", "b", "j", "e", "c", "t", "s", ":",
    "o", "b", "j", "e", "c", "t", "s">>
gc_heap_objects_objects_Description ==
  <<"N", "u", "m", "b", "e", "r", " ", "o", "f", " ", "o", "b", "j", "e", "c", "t", "s",
    ",", " ", "l", "i", "v", "e", " ", "o", "r", " ", "u", "n", "s", "w", "e", "p", "t",
    ",", " ", "o", "c", "c", "u", "p", "y", "i", "n", "g", " ", "h", "e", "a", "p", " ",
    "m", "e", "m", "o", "r", "y", ".">>
gc_heap_objects_objects ==
  [Name |-> gc_heap_objects_objects_Name,
   Description |-> gc_heap_objects_objects_Description,
   Kind |-> KindUint64,
   Cumulative |-> FALSE]

\* allDesc[11]: "/gc/heap/tiny/allocs:objects"
gc_heap_tiny_allocs_objects_Name ==
  <<"/", "g", "c", "/", "h", "e", "a", "p", "/", "t", "i", "n", "y", "/", "a", "l", "l",
    "o", "c", "s", ":", "o", "b", "j", "e", "c", "t", "s">>
gc_heap_tiny_allocs_objects_Description ==
  <<"C", "o", "u", "n", "t", " ", "o", "f", " ", "s", "m", "a", "l", "l", " ", "a", "l",
    "l", "o", "c", "a", "t", "i", "o", "n", "s", " ", "t", "h", "a", "t", " ", "a", "r",
    "e", " ", "p", "a", "c", "k", "e", "d", " ", "t", "o", "g", "e", "t", "h", "e", "r",
    " ", "i", "n", "t", "o", " ", "b", "l", "o", "c", "k", "s", ".", " ", "T", "h", "e",
    "s", "e", " ", "a", "l", "l", "o", "c", "a", "t", "i", "o", "n", "s", " ", "a", "r",
    "e", " ", "c", "o", "u", "n", "t", "e", "d", " ", "s", "e", "p", "a", "r", "a", "t",
    "e", "l", "y", " ", "f", "r", "o", "m", " ", "o", "t", "h", "e", "r", " ", "a", "l",
    "l", "o", "c", "a", "t", "i", "o", "n", "s", " ", "b", "e", "c", "a", "u", "s", "e",
    " ", "e", "a", "c", "h", " ", "i", "n", "d", "i", "v", "i", "d", "u", "a", "l", " ",
    "a", "l", "l", "o", "c", "a", "t", "i", "o", "n", " ", "i", "s", " ", "n", "o", "t",
    " ", "t", "r", "a", "c", "k", "e", "d", " ", "b", "y", " ", "t", "h", "e", " ", "r",
    "u", "n", "t", "i", "m", "e", ",", " ", "o", "n", "l", "y", " ", "t", "h", "e", "i",
    "r", " ", "b", "l", "o", "c", "k", ".", " ", "E", "a", "c", "h", " ", "b", "l", "o",
    "c", "k", " ", "i", "s", " ", "a", "l", "r", "e", "a", "d", "y", " ", "a", "c", "c",
    "o", "u", "n", "t", "e", "d", " ", "f", "o", "r", " ", "i", "n", " ", "a", "l", "l",
    "o", "c", "s", "-", "b", "y", "-", "s", "i", "z", "e", " ", "a", "n", "d", " ", "f",
    "r", "e", "e", "s", "-", "b", "y", "-", "s", "i", "z", "e", ".">>
gc_heap_tiny_allocs_objects ==
  [Name |-> gc_heap_tiny_allocs_objects_Name,
   Description |-> gc_heap_tiny_allocs_objects_Description,
   Kind |-> KindUint64,
   Cumulative |-> TRUE]

\* allDesc[12]: "/gc/pauses:seconds"
gc_pauses_seconds_Name ==
  <<"/", "g", "c", "/", "p", "a", "u", "s", "e", "s", ":", "s", "e", "c", "o", "n", "d",
    "s">>
gc_pauses_seconds_Description ==
  <<"D", "i", "s", "t", "r", "i", "b", "u", "t", "i", "o", "n", " ", "i", "n", "d", "i",
    "v", "i", "d", "u", "a", "l", " ", "G", "C", "-", "r", "e", "l", "a", "t", "e", "d",
    " ", "s", "t", "o", "p", "-", "t", "h", "e", "-", "w", "o", "r", "l", "d", " ", "p",
    "a", "u", "s", "e", " ", "l", "a", "t", "e", "n", "c", "i", "e", "s", ".">>
\* Variant of the entry below: Kind is a scalar kind.
gc_pauses_seconds_Scalar ==
  [Name |-> gc_pauses_seconds_Name,
   Description |-> gc_pauses_seconds_Description,
   Kind |-> KindUint64,
   Cumulative |-> TRUE]
gc_pauses_seconds ==
  [Name |-> gc_pauses_seconds_Name,
   Description |-> gc_pauses_seconds_Description,
   Kind |-> KindFloat64Histogram,
   Cumulative |-> TRUE]

\* allDesc[13]: "/gc/stack/starting-size:bytes"
gc_stack_starting_size_bytes_Name ==
  <<"/", "g", "c", "/", "s", "t", "a", "c", "k", "/", "s", "t", "a", "r", "t", "i", "n",
    "g", "-", "s", "i", "z", "e", ":", "b", "y", "t", "e", "s">>
gc_stack_starting_size_bytes_Description ==
  <<"T", "h", "e", " ", "s", "t", "a", "c", "k", " ", "s", "i", "z", "e", " ", "o", "f",
    " ", "n", "e", "w", " ", "g", "o", "r", "o", "u", "t", "i", "n", "e", "s", ".">>
gc_stack_starting_size_bytes ==
  [Name |-> gc_stack_starting_size_bytes_Name,
   Description |-> gc_stack_starting_size_bytes_Description,
   Kind |-> KindUint64,
   Cumulative |-> FALSE]

\* allDesc[14]: "/memory/classes/heap/free:bytes"
memory_classes_heap_free_bytes_Name ==
  <<"/", "m", "e", "m", "o", "r", "y", "/", "c", "l", "a", "s", "s", "e", "s", "/", "h",
    "e", "a", "p", "/", "f", "r", "e", "e", ":", "b", "y", "t", "e", "s">>
memory_classes_heap_free_bytes_Description ==
  <<"M", "e", "m", "o", "r", "y", " ", "t", "h", "a", "t", " ", "i", "s", " ", "c", "o",
    "m", "p", "l", "e", "t", "e", "l", "y", " ", "f", "r", "e", "e", " ", "a", "n", "d",
    " ", "e", "l", "i", "g", "i", "b", "l", "e", " ", "t", "o", " ", "b", "e", " ", "r",
    "e", "t", "u", "r", "n", "e", "d", " ", "t", "o", " ", "t", "h", "e", " ", "u", "n",
    "d", "e", "r", "l", "y", "i", "n", "g", " ", "s", "y", "s", "t", "e", "m", ",", " ",
    "b", "u", "t", " ", "h", "a", "s", " ", "n", "o", "t", " ", "b", "e", "e", "n", ".",
    " ", "T", "h", "i", "s", " ", "m", "e", "t", "r", "i", "c", " ", "i", "s", " ", "t",
    "h", "e", " ", "r", "u", "n", "t", "i", "m", "e", "'", "s", " ", "e", "s", "t", "i",
    "m", "a", "t", "e", " ", "o", "f", " ", "f", "r", "e", "e", " ", "a", "d", "d", "r",
    "e", "s", "s", " ", "s", "p", "a", "c", "e", " ", "t", "h", "a", "t", " ", "i", "s",
    " ", "b", "a", "c", "k", "e", "d", " ", "b", "y", " ", "p", "h", "y", "s", "i", "c",
    "a", "l", " ", "m", "e", "m", "o", "r", "y", ".">>
memory_classes_heap_free_bytes ==
  [Name |-> memory_classes_heap_free_bytes_Name,
   Description |-> memory_classes_heap_free_bytes_Description,
   Kind |-> KindUint64,
   Cumulative |-> FALSE]

\* allDesc[15]: "/memory/classes/heap/objects:bytes"
memory_classes_heap_objects_bytes_Name ==
  <<"/", "m", "e", "m", "o", "r", "y", "/", "c", "l", "a", "s", "s", "e", "s", "/", "h",
    "e", "a", "p", "/", "o", "b", "j", "e", "c", "t", "s", ":", "b", "y", "t", "e", "s">>
memory_classes_heap_objects_bytes_Description ==
  <<"M", "e", "m", "o", "r", "y", " ", "o", "c", "c", "u", "p", "i", "e", "d", " ", "b",
    "y", " ", "l", "i", "v", "e", " ", "o", "b", "j", "e", "c", "t", "s", " ", "a", "n",
    "d", " ", "d", "e", "a", "d", " ", "o", "b", "j", "e", "c", "t", "s", " ", "t", "h",
    "a", "t", " ", "h", "a", "v", "e", " ", "n", "o", "t", " ", "y", "e", "t", " ", "b",
    "e", "e", "n", " ", "m", "a", "r", "k", "e", "d", " ", "f", "r", "e", "e", " ", "b",
    "y", " ", "t", "h", "e", " ", "g", "a", "r", "b", "a", "g", "e", " ", "c", "o", "l",
    "l", "e", "c", "t", "o", "r", ".">>
memory_classes_heap_objects_bytes ==
  [Name |-> memory_classes_heap_objects_bytes_Name,
   Description |-> memory_classes_heap_objects_bytes_Description,
   Kind |-> KindUint64,
   Cumulative |-> FALSE]

\* allDesc[16]: "/memory/classes/heap/released:bytes"
memory_classes_heap_released_bytes_Name ==
  <<"/", "m", "e", "m", "o", "r", "y", "/", "c", "l", "a", "s", "s", "e", "s", "/", "h",
    "e", "a", "p", "/", "r", "e", "l", "e", "a", "s", "e", "d", ":", "b", "y", "t", "e",
    "s">>
memory_classes_heap_released_bytes_Description ==
  <<"M", "e", "m", "o", "r", "y", " ", "t", "h", "a", "t", " ", "i", "s", " ", "c", "o",
    "m", "p", "l", "e", "t", "e", "l", "y", " ", "f", "r", "e", "e", " ", "a", "n", "d",
    " ", "h", "a", "s", " ", "b", "e", "e", "n", " ", "r", "e", "t", "u", "r", "n", "e",
    "d", " ", "t", "o", " ", "t", "h", "e", " ", "u", "n", "d", "e", "r", "l", "y", "i",
    "n", "g", " ", "s", "y", "s", "t", "e", "m", ".", " ", "T", "h", "i", "s", " ", "m",
    "e", "t", "r", "i", "c", " ", "i", "s", " ", "t", "h", "e", " ", "r", "u", "n", "t",
    "i", "m", "e", "'", "s", " ", "e", "s", "t", "i", "m", "a", "t", "e", " ", "o", "f",
    " ", "f", "r", "e", "e", " ", "a", "d", "d", "r", "e", "s", "s", " ", "s", "p", "a",
    "c", "e", " ", "t", "h", "a", "t", " ", "i", "s", " ", "s", "t", "i", "l", "l", " ",
    "m", "a", "p", "p", "e", "d", " ", "i", "n", "t", "o", " ", "t", "h", "e", " ", "p",
    "r", "o", "c", "e", "s", "s", ",", " ", "b", "u", "t", " ", "i", "s", " ", "n", "o",
    "t", " ", "b", "a", "c", "k", "e", "d", " ", "b", "y", " ", "p", "h", "y", "s", "i",
    "c", "a", "l", " ", "m", "e", "m", "o", "r", "y", ".">>
memory_classes_heap_released_bytes ==
  [Name |-> memory_classes_heap_released_bytes_Name,
   Description |-> memory_classes_heap_released_bytes_Description,
   Kind |-> KindUint64,
   Cumulative |-> FALSE]

\* allDesc[17]: "/memory/classes/heap/stacks:bytes"
memory_classes_heap_stacks_bytes_Name ==
  <<"/", "m", "e", "m", "o", "r", "y", "/", "c", "l", "a", "s", "s", "e", "s", "/", "h",
    "e", "a", "p", "/", "s", "t", "a", "c", "k", "s", ":", "b", "y", "t", "e", "s">>
memory_classes_heap_stacks_bytes_Description ==
  <<"M", "e", "m", "o", "r", "y", " ", "a", "l", "l", "o", "c", "a", "t", "e", "d", " ",
    "f", "r", "o", "m", " ", "t", "h", "e", " ", "h", "e", "a", "p", " ", "t", "h", "a",
    "t", " ", "i", "s", " ", "r", "e", "s", "e", "r", "v", "e", "d", " ", "f", "o", "r",
    " ", "s", "t", "a", "c", "k", " ", "s", "p", "a", "c", "e", ",", " ", "w", "h", "e",
    "t", "h", "e", "r", " ", "o", "r", " ", "n", "o", "t", " ", "i", "t", " ", "i", "s",
    " ", "c", "u", "r", "r", "e", "n", "t", "l", "y", " ", "i", "n", "-", "u", "s", "e",
    ".">>
memory_classes_heap_stacks_bytes ==
  [Name |-> memory_classes_heap_stacks_bytes_Name,
   Description |-> memory_classes_heap_stacks_bytes_Description,
   Kind |-> KindUint64,
   Cumulative |-> FALSE]

\* allDesc[18]: "/memory/classes/heap/unused:bytes"
memory_classes_heap_unused_bytes_Name ==
  <<"/", "m", "e", "m", "o", "r", "y", "/", "c", "l", "a", "s", "s", "e", "s", "/", "h",
    "e", "a", "p", "/", "u", "n", "u", "s", "e", "d", ":", "b", "y", "t", "e", "s">>
memory_classes_heap_unused_bytes_Description ==
  <<"M", "e", "m", "o", "r", "y", " ", "t", "h", "a", "t", " ", "i", "s", " ", "r", "e",
    "s", "e", "r", "v", "e", "d", " ", "f", "o", "r", " ", "h", "e", "a", "p", " ", "o",
    "b", "j", "e", "c", "t", "s", " ", "b", "u", "t", " ", "i", "s", " ", "n", "o", "t",
    " ", "c", "u", "r", "r", "e", "n", "t", "l", "y", " ", "u", "s", "e", "d", " ", "t",
    "o", " ", "h", "o", "l", "d", " ", "h", "e", "a", "p", " ", "o", "b", "j", "e", "c",
    "t", "s", ".">>
memory_classes_heap_unused_bytes ==
  [Name |-> memory_classes_heap_unused_bytes_Name,
   Description |-> memory_classes_heap_unused_bytes_Description,
   Kind |-> KindUint64,
   Cumulative |-> FALSE]

\* allDesc[19]: "/memory/classes/metadata/mcache/free:bytes"
memory_classes_metadata_mcache_free_bytes_Name ==
  <<"/", "m", "e", "m", "o", "r", "y", "/", "c", "l", "a", "s", "s", "e", "s", "/", "m",
    "e", "t", "a", "d", "a", "t", "a", "/", "m", "c", "a", "c", "h", "e", "/", "f", "r",
    "e", "e", ":", "b", "y", "t", "e", "s">>
memory_classes_metadata_mcache_free_bytes_Description ==
  <<"M", "e", "m", "o", "r", "y", " ", "t", "h", "a", "t", " ", "i", "s", " ", "r", "e",
    "s", "e", "r", "v", "e", "d", " ", "f", "o", "r", " ", "r", "u", "n", "t", "i", "m",
    "e", " ", "m", "c", "a", "c", "h", "e", " ", "s", "t", "r", "u", "c", "t", "u", "r",
    "e", "s", ",", " ", "b", "u", "t", " ", "n", "o", "t", " ", "i", "n", "-", "u", "s",
    "e", ".">>
memory_classes_metadata_mcache_free_bytes ==
  [Name |-> memory_classes_metadata_mcache_free_bytes_Name,
   Description |-> memory_classes_metadata_mcache_free_bytes_Description,
   Kind |-> KindUint64,
   Cumulative |-> FALSE]

\* allDesc[20]: "/memory/classes/metadata/mcache/inuse:bytes"
memory_classes_metadata_mcache_inuse_bytes_Name ==
  <<"/", "m", "e", "m", "o", "r", "y", "/", "c", "l", "a", "s", "s", "e", "s", "/", "m",
    "e", "t", "a", "d", "a", "t", "a", "/", "m", "c", "a", "c", "h", "e", "/", "i", "n",
    "u", "s", "e", ":", "b", "y", "t", "e", "s">>
memory_classes_metadata_mcache_inuse_bytes_Description ==
  <<"M", "e", "m", "o", "r", "y", " ", "t", "h", "a", "t", " ", "i", "s", " ", "o", "c",
    "c", "u", "p", "i", "e", "d", " ", "b", "y", " ", "r", "u", "n", "t", "i", "m", "e",
    " ", "m", "c", "a", "c", "h", "e", " ", "s", "t", "r", "u", "c", "t", "u", "r", "e",
    "s", " ", "t", "h", "a", "t", " ", "a", "r", "e", " ", "c", "u", "r", "r", "e", "n",
    "t", "l", "y", " ", "b", "e", "i", "n", "g", " ", "u", "s", "e", "d", ".">>
memory_classes_metadata_mcache_inuse_bytes ==
  [Name |-> memory_classes_metadata_mcache_inuse_bytes_Name,
   Description |-> memory_classes_metadata_mcache_inuse_bytes_Description,
   Kind |-> KindUint64,
   Cumulative |-> FALSE]

\* allDesc[21]: "/memory/classes/metadata/mspan/free:bytes"
memory_classes_metadata_mspan_free_bytes_Name ==
  <<"/", "m", "e", "m", "o", "r", "y", "/", "c", "l", "a", "s", "s", "e", "s", "/", "m",
    "e", "t", "a", "d", "a", "t", "a", "/", "m", "s", "p", "a", "n", "/", "f", "r", "e",
    "e", ":", "b", "y", "t", "e", "s">>
memory_classes_metadata_mspan_free_bytes_Description ==
  <<"M", "e", "m", "o", "r", "y", " ", "t", "h", "a", "t", " ", "i", "s", " ", "r", "e",
    "s", "e", "r", "v", "e", "d", " ", "f", "o", "r", " ", "r", "u", "n", "t", "i", "m",
    "e", " ", "m", "s", "p", "a", "n", " ", "s", "t", "r", "u", "c", "t", "u", "r", "e",
    "s", ",", " ", "b", "u", "t", " ", "n", "o", "t", " ", "i", "n", "-", "u", "s", "e",
    ".">>
memory_classes_metadata_mspan_free_bytes ==
  [Name |-> memory_classes_metadata_mspan_free_bytes_Name,
   Description |-> memory_classes_metadata_mspan_free_bytes_Description,
   Kind |-> KindUint64,
   Cumulative |-> FALSE]

\* allDesc[22]: "/memory/classes/metadata/mspan/inuse:bytes"
memory_classes_metadata_mspan_inuse_bytes_Name ==
  <<"/", "m", "e", "m", "o", "r", "y", "/", "c", "l", "a", "s", "s", "e", "s", "/", "m",
    "e", "t", "a", "d", "a", "t", "a", "/", "m", "s", "p", "a", "n", "/", "i", "n", "u",
    "s", "e", ":", "b", "y", "t", "e", "s">>
memory_classes_metadata_mspan_inuse_bytes_Description ==
  <<"M", "e", "m", "o", "r", "y", " ", "t", "h", "a", "t", " ", "i", "s", " ", "o", "c",
    "c", "u", "p", "i", "e", "d", " ", "b", "y", " ", "r", "u", "n", "t", "i", "m", "e",
    " ", "m", "s", "p", "a", "n", " ", "s", "t", "r", "u", "c", "t", "u", "r", "e", "s",
    " ", "t", "h", "a", "t", " ", "a", "r", "e", " ", "c", "u", "r", "r", "e", "n", "t",
    "l", "y", " ", "b", "e", "i", "n", "g", " ", "u", "s", "e", "d", ".">>
memory_classes_metadata_mspan_inuse_bytes ==
  [Name |-> memory_classes_metadata_mspan_inuse_bytes_Name,
   Description |-> memory_classes_metadata_mspan_inuse_bytes_Description,
   Kind |-> KindUint64,
   Cumulative |-> FALSE]

\* allDesc[23]: "/memory/classes/metadata/other:bytes"
memory_classes_metadata_other_bytes_Name ==
  <<"/", "m", "e", "m", "o", "r", "y", "/", "c", "l", "a", "s", "s", "e", "s", "/", "m",
    "e", "t", "a", "d", "a", "t", "a", "/", "o", "t", "h", "e", "r", ":", "b", "y", "t",
    "e", "s">>
memory_classes_metadata_other_bytes_Description ==
  <<"M", "e", "m", "o", "r", "y", " ", "t", "h", "a", "t", " ", "i", "s", " ", "r", "e",
    "s", "e", "r", "v", "e", "d", " ", "f", "o", "r", " ", "o", "r", " ", "u", "s", "e",
    "d", " ", "t", "o", " ", "h", "o", "l", "d", " ", "r", "u", "n", "t", "i", "m", "e",
    " ", "m", "e", "t", "a", "d", "a", "t", "a", ".">>
memory_classes_metadata_other_bytes ==
  [Name |-> memory_classes_metadata_other_bytes_Name,
   Description |-> memory_classes_metadata_other_bytes_Description,
   Kind |-> KindUint64,
   Cumulative |-> FALSE]

\* allDesc[24]: "/memory/classes/os-stacks:bytes"
memory_classes_os_stacks_bytes_Name ==
  <<"/", "m", "e", "m", "o", "r", "y", "/", "c", "l", "a", "s", "s", "e", "s", "/", "o",
    "s", "-", "s", "t", "a", "c", "k", "s", ":", "b", "y", "t", "e", "s">>
memory_classes_os_stacks_bytes_Description ==
  <<"S", "t", "a", "c", "k", " ", "m", "e", "m", "o", "r", "y", " ", "a", "l", "l", "o",
    "c", "a", "t", "e", "d", " ", "b", "y", " ", "t", "h", "e", " ", "u", "n", "d", "e",
    "r", "l", "y", "i", "n", "g", " ", "o", "p", "e", "r", "a", "t", "i", "n", "g", " ",
    "s", "y", "s", "t", "e", "m", ".">>
memory_classes_os_stacks_bytes ==
  [Name |-> memory_classes_os_stacks_bytes_Name,
   Description |-> memory_classes_os_stacks_bytes_Description,
   Kind |-> KindUint64,
   Cumulative |-> FALSE]

\* allDesc[25]: "/memory/classes/other:bytes"
memory_classes_other_bytes_Name ==
  <<"/", "m", "e", "m", "o", "r", "y", "/", "c", "l", "a", "s", "s", "e", "s", "/", "o",
    "t", "h", "e", "r", ":", "b", "y", "t", "e", "s">>
memory_classes_other_bytes_Description ==
  <<"M", "e", "m", "o", "r", "y", " ", "u", "s", "e", "d", " ", "b", "y", " ", "e", "x",
    "e", "c", "u", "t", "i", "o", "n", " ", "t", "r", "a", "c", "e", " ", "b", "u", "f",
    "f", "e", "r", "s", ",", " ", "s", "t", "r", "u", "c", "t", "u", "r", "e", "s", " ",
    "f", "o", "r", " ", "d", "e", "b", "u", "g", "g", "i", "n", "g", " ", "t", "h", "e",
    " ", "r", "u", "n", "t", "i", "m", "e", ",", " ", "f", "i", "n", "a", "l", "i", "z",
    "e", "r", " ", "a", "n", "d", " ", "p", "r", "o", "f", "i", "l", "e", "r", " ", "s",
    "p", "e", "c", "i", "a", "l", "s", ",", " ", "a", "n", "d", " ", "m", "o", "r", "e",
    ".">>
memory_classes_other_bytes ==
  [Name |-> memory_classes_other_bytes_Name,
   Description |-> memory_classes_other_bytes_Description,
   Kind |-> KindUint64,
   Cumulative |-> FALSE]

\* allDesc[26]: "/memory/classes/profiling/buckets:bytes"
memory_classes_profiling_buckets_bytes_Name ==
  <<"/", "m", "e", "m", "o", "r", "y", "/", "c", "l", "a", "s", "s", "e", "s", "/", "p",
    "r", "o", "f", "i", "l", "i", "n", "g", "/", "b", "u", "c", "k", "e", "t", "s", ":",
    "b", "y", "t", "e", "s">>
memory_classes_profiling_buckets_bytes_Description ==
  <<"M", "e", "m", "o", "r", "y", " ", "t", "h", "a", "t", " ", "i", "s", " ", "u", "s",
    "e", "d", " ", "b", "y", " ", "t", "h", "e", " ", "s", "t", "a", "c", "k", " ", "t",
    "r", "a", "c", "e", " ", "h", "a", "s", "h", " ", "m", "a", "p", " ", "u", "s", "e",
    "d", " ", "f", "o", "r", " ", "p", "r", "o", "f", "i", "l", "i", "n", "g", ".">>
memory_classes_profiling_buckets_bytes ==
  [Name |-> memory_classes_profiling_buckets_bytes_Name,
   Description |-> memory_classes_profiling_buckets_bytes_Description,
   Kind |-> KindUint64,
   Cumulative |-> FALSE]

\* allDesc[27]: "/memory/classes/total:bytes"
memory_classes_total_bytes_Name ==
  <<"/", "m", "e", "m", "o", "r", "y", "/", "c", "l", "a", "s", "s", "e", "s", "/", "t",
    "o", "t", "a", "l", ":", "b", "y", "t", "e", "s">>
memory_classes_total_bytes_Description ==
  <<"A", "l", "l", " ", "m", "e", "m", "o", "r", "y", " ", "m", "a", "p", "p", "e", "d",
    " ", "b", "y", " ", "t", "h", "e", " ", "G", "o", " ", "r", "u", "n", "t", "i", "m",
    "e", " ", "i", "n", "t", "o", " ", "t", "h", "e", " ", "c", "u", "r", "r", "e", "n",
    "t", " ", "p", "r", "o", "c", "e", "s", "s", " ", "a", "s", " ", "r", "e", "a", "d",
    "-", "w", "r", "i", "t", "e", ".", " ", "N", "o", "t", "e", " ", "t", "h", "a", "t",
    " ", "t", "h", "i", "s", " ", "d", "o", "e", "s", " ", "n", "o", "t", " ", "i", "n",
    "c", "l", "u", "d", "e", " ", "m", "e", "m", "o", "r", "y", " ", "m", "a", "p", "p",
    "e", "d", " ", "b", "y", " ", "c", "o", "d", "e", " ", "c", "a", "l", "l", "e", "d",
    " ", "v", "i", "a", " ", "c", "g", "o", " ", "o", "r", " ", "v", "i", "a", " ", "t",
    "h", "e", " ", "s", "y", "s", "c", "a", "l", "l", " ", "p", "a", "c", "k", "a", "g",
    "e", ".", " ", "S", "u", "m", " ", "o", "f", " ", "a", "l", "l", " ", "m", "e", "t",
    "r", "i", "c", "s", " ", "i", "n", " ", "/", "m", "e", "m", "o", "r", "y", "/", "c",
    "l", "a", "s", "s", "e", "s", ".">>
\* Variant of the entry below: Cumulative is set.
memory_classes_total_bytes_Cumulative ==
  [Name |-> memory_classes_total_bytes_Name,
   Description |-> memory_classes_total_bytes_Description,
   Kind |-> KindUint64,
   Cumulative |-> TRUE]
memory_classes_total_bytes ==
  [Name |-> memory_classes_total_bytes_Name,
   Description |-> memory_classes_total_bytes_Description,
   Kind |-> KindUint64,
   Cumulative |-> FALSE]

\* allDesc[28]: "/sched/goroutines:goroutines"
sched_goroutines_goroutines_Name ==
  <<"/", "s", "c", "h", "e", "d", "/", "g", "o", "r", "o", "u", "t", "i", "n", "e", "s",
    ":", "g", "o", "r", "o", "u", "t", "i", "n", "e", "s">>
\* Variant of the description below: "Count of live goroutines"
sched_goroutines_goroutines_Description_NoPeriod ==
  <<"C", "o", "u", "n", "t", " ", "o", "f", " ", "l", "i", "v", "e", " ", "g", "o", "r",
    "o", "u", "t", "i", "n", "e", "s">>
sched_goroutines_goroutines_Description ==
  <<"C", "o", "u", "n", "t", " ", "o", "f", " ", "l", "i", "v", "e", " ", "g", "o", "r",
    "o", "u", "t", "i", "n", "e", "s", ".">>
sched_goroutines_goroutines ==
  [Name |-> sched_goroutines_goroutines_Name,
   Description |-> sched_goroutines_goroutines_Description,
   Kind |-> KindUint64,
   Cumulative |-> FALSE]

\* allDesc[29]: "/sched/latencies:seconds"
sched_latencies_seconds_Name ==
  <<"/", "s", "c", "h", "e", "d", "/", "l", "a", "t", "e", "n", "c", "i", "e", "s", ":",
    "s", "e", "c", "o", "n", "d", "s">>
sched_latencies_seconds_Description ==
  <<"D", "i", "s", "t", "r", "i", "b", "u", "t", "i", "o", "n", " ", "o", "f", " ", "t",
    "h", "e", " ", "t", "i", "m", "e", " ", "g", "o", "r", "o", "u", "t", "i", "n", "e",
    "s", " ", "h", "a", "v", "e", " ", "s", "p", "e", "n", "t", " ", "i", "n", " ", "t",
    "h", "e", " ", "s", "c", "h", "e", "d", "u", "l", "e", "r", " ", "i", "n", " ", "a",
    " ", "r", "u", "n", "n", "a", "b", "l", "e", " ", "s", "t", "a", "t", "e", " ", "b",
    "e", "f", "o", "r", "e", " ", "a", "c", "t", "u", "a", "l", "l", "y", " ", "r", "u",
    "n", "n", "i", "n", "g", ".">>
sched_latencies_seconds ==
  [Name |-> sched_latencies_seconds_Name,
   Description |-> sched_latencies_seconds_Description,
   Kind |-> KindFloat64Histogram,
   Cumulative |-> FALSE]

\* Variant of the literal below: gc_heap_frees_bytes is listed twice.
allDescLiteral_Duplicate ==
  <<gc_cycles_automatic_gc_cycles, gc_cycles_forced_gc_cycles, gc_cycles_total_gc_cycles,
    gc_heap_allocs_by_size_bytes, gc_heap_allocs_bytes, gc_heap_allocs_objects,
    gc_heap_frees_by_size_bytes, gc_heap_frees_bytes, gc_heap_frees_bytes,
    gc_heap_goal_bytes, gc_heap_objects_objects, gc_heap_tiny_allocs_objects,
    gc_pauses_seconds, gc_stack_starting_size_bytes, memory_classes_heap_free_bytes,
    memory_classes_heap_objects_bytes, memory_classes_heap_released_bytes,
    memory_classes_heap_stacks_bytes, memory_classes_heap_unused_bytes,
    memory_classes_metadata_mcache_free_bytes, memory_classes_metadata_mcache_inuse_bytes,
    memory_classes_metadata_mspan_free_bytes, memory_classes_metadata_mspan_inuse_bytes,
    memory_classes_metadata_other_bytes, memory_classes_os_stacks_bytes,
    memory_classes_other_bytes, memory_classes_profiling_buckets_bytes,
    memory_classes_total_bytes, sched_goroutines_goroutines, sched_latencies_seconds>>
\* Variant of the literal below: allocs:bytes is listed before allocs-by-size:bytes.
allDescLiteral_Swapped ==
  <<gc_cycles_automatic_gc_cycles, gc_cycles_forced_gc_cycles, gc_cycles_total_gc_cycles,
    gc_heap_allocs_bytes, gc_heap_allocs_by_size_bytes, gc_heap_allocs_objects,
    gc_heap_frees_by_size_bytes, gc_heap_frees_bytes, gc_heap_frees_objects,
    gc_heap_goal_bytes, gc_heap_objects_objects, gc_heap_tiny_allocs_objects,
    gc_pauses_seconds, gc_stack_starting_size_bytes, memory_classes_heap_free_bytes,
    memory_classes_heap_objects_bytes, memory_classes_heap_released_bytes,
    memory_classes_heap_stacks_bytes, memory_classes_heap_unused_bytes,
    memory_classes_metadata_mcache_free_bytes, memory_classes_metadata_mcache_inuse_bytes,
    memory_classes_metadata_mspan_free_bytes, memory_classes_metadata_mspan_inuse_bytes,
    memory_classes_metadata_other_bytes, memory_classes_os_stacks_bytes,
    memory_classes_other_bytes, memory_classes_profiling_buckets_bytes,
    memory_classes_total_bytes, sched_goroutines_goroutines, sched_latencies_seconds>>
\* The composite literal that initialises allDesc, in declaration order.
allDescLiteral ==
  <<gc_cycles_automatic_gc_cycles, gc_cycles_forced_gc_cycles, gc_cycles_total_gc_cycles,
    gc_heap_allocs_by_size_bytes, gc_heap_allocs_bytes, gc_heap_allocs_objects,
    gc_heap_frees_by_size_bytes, gc_heap_frees_bytes, gc_heap_frees_objects,
    gc_heap_goal_bytes, gc_heap_objects_objects, gc_heap_tiny_allocs_objects,
    gc_pauses_seconds, gc_stack_starting_size_bytes, memory_classes_heap_free_bytes,
    memory_classes_heap_objects_bytes, memory_classes_heap_released_bytes,
    memory_classes_heap_stacks_bytes, memory_classes_heap_unused_bytes,
    memory_classes_metadata_mcache_free_bytes, memory_classes_metadata_mcache_inuse_bytes,
    memory_classes_metadata_mspan_free_bytes, memory_classes_metadata_mspan_inuse_bytes,
    memory_classes_metadata_other_bytes, memory_classes_os_stacks_bytes,
    memory_classes_other_bytes, memory_classes_profiling_buckets_bytes,
    memory_classes_total_bytes, sched_goroutines_goroutines, sched_latencies_seconds>>

\* ----------------------------------------------------------------- state
VARIABLES
  allDesc,   \* the package variable: a slice header [ptr, len, cap]
  heap,      \* backing arrays, indexed by address (address 0 is nil)
  pc,        \* per caller: "idle", "All" (inside All) or "return"
  ret,       \* per caller: the slice header All() is returning
  results,   \* per caller: the returned slices the caller still holds
  writes     \* number of writes callers made through returned slices

vars == <<allDesc, heap, pc, ret, results, writes>>

\* The nil slice.
NilSlice == [ptr |-> 0, len |-> 0, cap |-> 0]

\* The elements a slice header s refers to, s[0:len(s)].
Elems(s) == IF s.ptr = 0 THEN <<>> ELSE SubSeq(heap[s.ptr], 1, s.len)

\* Package initialisation: allDesc refers to a fresh array holding the
\* literal; no caller has run yet.
Init ==
  /\ heap = <<allDescLiteral>>
  /\ allDesc = [ptr |-> 1, len |-> Len(allDescLiteral), cap |-> Len(allDescLiteral)]
  /\ pc = [p \in Callers |-> "idle"]
  /\ ret = [p \in Callers |-> NilSlice]
  /\ results = [p \in Callers |-> <<>>]
  /\ writes = 0

\* Caller p calls All().
Call(p) ==
  /\ pc[p] = "idle"
  /\ Len(results[p]) < MaxResults
  /\ pc' = [pc EXCEPT ![p] = "All"]
  /\ UNCHANGED <<allDesc, heap, ret, results, writes>>

\* Variant of All below: hands out the slice and drops its last element
\* from the package variable.
All_Consume(p) ==
  /\ pc[p] = "All"
  /\ ret' = [ret EXCEPT ![p] = allDesc]
  /\ allDesc' = [allDesc EXCEPT !.len = IF @ > 0 THEN @ - 1 ELSE 0]
  /\ pc' = [pc EXCEPT ![p] = "return"]
  /\ UNCHANGED <<heap, results, writes>>

\* Variant of All below: exchanges the first two elements of the backing
\* array before returning the slice.
All_Reorder(p) ==
  /\ pc[p] = "All"
  /\ heap' = [heap EXCEPT ![allDesc.ptr] =
                [@ EXCEPT ![1] = heap[allDesc.ptr][2], ![2] = heap[allDesc.ptr][1]]]
  /\ ret' = [ret EXCEPT ![p] = allDesc]
  /\ pc' = [pc EXCEPT ![p] = "return"]
  /\ UNCHANGED <<allDesc, results, writes>>

\* func All() []Description { return allDesc }: the body copies the slice
\* header of allDesc into the return value.  It copies no element.
All(p) ==
  /\ pc[p] = "All"
  /\ ret' = [ret EXCEPT ![p] = allDesc]
  /\ pc' = [pc EXCEPT ![p] = "return"]
  /\ UNCHANGED <<allDesc, heap, results, writes>>

\* All() has returned to caller p, which keeps the returned slice.
Receive(p) ==
  /\ pc[p] = "return"
  /\ results' = [results EXCEPT ![p] = Append(@, ret[p])]
  /\ ret' = [ret EXCEPT ![p] = NilSlice]
  /\ pc' = [pc EXCEPT ![p] = "idle"]
  /\ UNCHANGED <<allDesc, heap, writes>>

\* Caller p drops the oldest slice it holds.
Discard(p) ==
  /\ pc[p] = "idle"
  /\ results[p] # <<>>
  /\ results' = [results EXCEPT ![p] = Tail(@)]
  /\ UNCHANGED <<allDesc, heap, pc, ret, writes>>

\* Callers write at the first MaxWriteIndex positions of a slice.
MaxWriteIndex == 2

\* What a caller may store through a returned slice.
CallerDescription ==
  [Name |-> <<"/", "x", ":", "y">>, Description |-> <<"x", ".">>,
   Kind |-> KindUint64, Cumulative |-> TRUE]
FieldValues(f) ==
  CASE f = "Name" -> {<<"/", "x", ":", "y">>}
    [] f = "Description" -> {<<>>}
    [] f = "Kind" -> {KindUint64, KindFloat64Histogram}
    [] f = "Cumulative" -> BOOLEAN

\* Caller p executes s[i] = d on the k-th slice s it holds (i is 1-based).
SetElem(p, k, i, d) ==
  /\ pc[p] = "idle"
  /\ writes < MaxWrites
  /\ k \in 1..Len(results[p])
  /\ i \in 1..results[p][k].len
  /\ heap' = [heap EXCEPT ![results[p][k].ptr][i] = d]
  /\ writes' = writes + 1
  /\ UNCHANGED <<allDesc, pc, ret, results>>

\* Caller p executes s[i].f = v on the k-th slice s it holds.
SetField(p, k, i, f, v) ==
  /\ pc[p] = "idle"
  /\ writes < MaxWrites
  /\ k \in 1..Len(results[p])
  /\ i \in 1..results[p][k].len
  /\ heap' = [heap EXCEPT ![results[p][k].ptr][i][f] = v]
  /\ writes' = writes + 1
  /\ UNCHANGED <<allDesc, pc, ret, results>>

\* Callers that only read what All() returns.
Next ==
  \/ \E p \in Callers : Call(p)
  \/ \E p \in Callers : All(p)
  \/ \E p \in Callers : Receive(p)
  \/ \E p \in Callers : Discard(p)

Spec == Init /\ [][Next]_vars

\* A goroutine inside All() is never blocked and does return.
SpecFair ==
  Init /\ [][Next]_vars /\ \A p \in Callers : WF_vars(All(p)) /\ WF_vars(Receive(p))

\* Callers that also write through the slices All() returned.
NextMut ==
  \/ \E p \in Callers : Call(p)
  \/ \E p \in Callers : All(p)
  \/ \E p \in Callers : Receive(p)
  \/ \E p \in Callers : Discard(p)
  \/ \E p \in Callers, k \in 1..MaxResults, i \in 1..MaxWriteIndex :
       SetElem(p, k, i, CallerDescription)
  \/ \E p \in Callers, k \in 1..MaxResults, i \in 1..MaxWriteIndex :
       \E f \in {"Name", "Description", "Kind", "Cumulative"} :
         \E v \in FieldValues(f) : SetField(p, k, i, f, v)

SpecMut == Init /\ [][NextMut]_vars

\* ------------------------------------------------------- string functions
\* Go string operations the properties below are stated with.
\* Printable ASCII in code order; Ascii[i] is the character of byte 31 + i.
\* Byte 96 (grave accent) cannot be written in a string here; its slot holds
\* the empty string.
Ascii ==
  <<" ", "!", "\"", "#", "$", "%", "&", "'", "(", ")", "*", "+", ",", "-", ".", "/",
    "0", "1", "2", "3", "4", "5", "6", "7", "8", "9", ":", ";", "<", "=", ">", "?",
    "@", "A", "B", "C", "D", "E", "F", "G", "H", "I", "J", "K", "L", "M", "N", "O",
    "P", "Q", "R", "S", "T", "U", "V", "W", "X", "Y", "Z", "[", "\\", "]", "^", "_",
    "", "a", "b", "c", "d", "e", "f", "g", "h", "i", "j", "k", "l", "m", "n", "o",
    "p", "q", "r", "s", "t", "u", "v", "w", "x", "y", "z", "{", "|", "}", "~">>

\* The byte a character is encoded as.
ByteOf(c) == 31 + (CHOOSE i \in 1..Len(Ascii) : Ascii[i] = c)

\* Go's a < b on strings: byte-wise lexicographic order.  The first
\* position where the strings differ decides; without one, the shorter
\* string is the smaller.
StringLess(a, b) ==
  LET n == IF Len(a) < Len(b) THEN Len(a) ELSE Len(b)
      diff == {i \in 1..n : a[i] # b[i]}
  IN IF diff = {}
       THEN Len(a) < Len(b)
       ELSE LET i == CHOOSE k \in diff : \A j \in diff : k <= j
            IN ByteOf(a[i]) < ByteOf(b[i])

HasPrefix(s, prefix) ==
  /\ Len(prefix) <= Len(s)
  /\ SubSeq(s, 1, Len(prefix)) = prefix

HasSuffix(s, suffix) ==
  /\ Len(suffix) <= Len(s)
  /\ SubSeq(s, Len(s) - Len(suffix) + 1, Len(s)) = suffix

\* ------------------------------------------------------------ name format
\* The automaton of ^(?P<name>/[^:]+):(?P<unit>[^:*/]+(?:[*/][^:*/]+)*)$
\*   0 start, 1 after the leading '/', 2 inside the name group,
\*   3 after the colon, 4 inside a unit term, 5 after a unit delimiter,
\*   -1 no match.  State 4 accepts.
NameStep(q, c) ==
  CASE q = 0 -> IF c = "/" THEN 1 ELSE -1
    [] q = 1 -> IF c # ":" THEN 2 ELSE -1
    [] q = 2 -> IF c = ":" THEN 3 ELSE 2
    [] q = 3 -> IF c \notin {":", "*", "/"} THEN 4 ELSE -1
    [] q = 4 -> IF c \in {"*", "/"} THEN 5 ELSE IF c = ":" THEN -1 ELSE 4
    [] q = 5 -> IF c \notin {":", "*", "/"} THEN 4 ELSE -1
    [] OTHER -> -1

RECURSIVE NameRun(_, _, _)
NameRun(q, s, i) ==
  IF i > Len(s) THEN q ELSE NameRun(NameStep(q, s[i]), s, i + 1)

\* Whether s matches the expression.
NameMatches(s) == NameRun(0, s, 1) = 4

\* The two groups of a match: [^:]+ cannot take a colon, so the name group
\* ends before the first colon of s and the unit group starts after it.
NameGroup(s) ==
  SubSeq(s, 1, (CHOOSE i \in 1..Len(s) : s[i] = ":" /\ \A j \in 1..(i - 1) : s[j] # ":") - 1)
UnitGroup(s) == SubSeq(s, Len(NameGroup(s)) + 2, Len(s))

\* ---------------------------------------------------------------- claims
\* The slices All() has returned and that are still in use: those being
\* returned and those callers hold.
Returned ==
  {ret[p] : p \in {q \in Callers : pc[q] = "return"}}
    \cup UNION {{results[p][k] : k \in 1..Len(results[p])} : p \in Callers}

\* C1: after All() calls interleaved with caller writes to the returned
\* slices, every later All() call returns the descriptors of the table
\* built at initialisation, in the same order.
C1_CatalogUnchangedByCallerWrites ==
  \A p \in Callers : pc[p] = "return" => Elems(ret[p]) = allDescLiteral

\* C2: with any number of concurrent callers, no step of an All()
\* invocation writes the shared catalog, every invocation returns the
\* complete catalog built at initialisation, and every invocation completes.
C2_ConcurrentAll ==
  /\ [][(\E p \in Callers : pc[p] = "All" /\ pc'[p] # "All")
          => (heap' = heap /\ allDesc' = allDesc)]_vars
  /\ [](\A p \in Callers : pc[p] = "return" =>
          /\ ret[p].len = Len(allDescLiteral)
          /\ Elems(ret[p]) = allDescLiteral)
  /\ \A p \in Callers : (pc[p] = "All") ~> (pc[p] = "idle")
C2_Witness ==
  \E p, q, r \in Callers :
    /\ p # q /\ q # r /\ p # r
    /\ pc[p] = "All" /\ pc[q] = "All"
    /\ pc[r] = "return" /\ results[r] # <<>>

\* C3: any two calls to All() return sequences of equal length whose
\* elements agree position by position in Name, Description, Kind and
\* Cumulative, in the order declared at initialisation.
C3_TwoCallsAgree ==
  \A s, t \in Returned :
    LET a == Elems(s)
        b == Elems(t)
    IN /\ Len(a) = Len(b)
       /\ \A i \in 1..Len(a) :
            /\ a[i].Name = b[i].Name
            /\ a[i].Description = b[i].Description
            /\ a[i].Kind = b[i].Kind
            /\ a[i].Cumulative = b[i].Cumulative
            /\ i <= Len(allDescLiteral) /\ a[i] = allDescLiteral[i]
C3_Witness ==
  \E p, q \in Callers :
    /\ p # q
    /\ Len(results[p]) = 2
    /\ Len(results[q]) = 1
    /\ Len(Elems(results[p][1])) > 0

\* C4: every returned descriptor's name matches the name expression: it has
\* exactly one ':', the part before it starts with '/' and has at least one
\* more character, and the part after it is one or more non-empty unit
\* terms joined by '*' or '/';  "/gc/heap/goal:bytes" splits into the path
\* "/gc/heap/goal" and the unit "bytes".
C4_WellFormed(n) ==
  LET colons == {i \in 1..Len(n) : n[i] = ":"}
  IN /\ Cardinality(colons) = 1
     /\ LET c == CHOOSE i \in colons : TRUE
            path == SubSeq(n, 1, c - 1)
            unit == SubSeq(n, c + 1, Len(n))
            delims == {i \in 1..Len(unit) : unit[i] \in {"*", "/"}}
        IN /\ Len(path) >= 2
           /\ path[1] = "/"
           /\ Len(unit) >= 1
           /\ 1 \notin delims
           /\ Len(unit) \notin delims
           /\ \A i \in delims : (i + 1) \notin delims
           /\ NameGroup(n) = path
           /\ UnitGroup(n) = unit
C4_NameFormat ==
  \A s \in Returned : LET e == Elems(s) IN
    /\ \A i \in 1..s.len :
         /\ NameMatches(e[i].Name)
         /\ C4_WellFormed(e[i].Name)
    /\ \E i \in 1..s.len :
         LET n == e[i].Name
         IN /\ n = <<"/", "g", "c", "/", "h", "e", "a", "p", "/", "g", "o", "a", "l", ":",
                      "b", "y", "t", "e", "s">>
            /\ NameGroup(n) = <<"/", "g", "c", "/", "h", "e", "a", "p", "/", "g", "o", "a", "l">>
            /\ UnitGroup(n) = <<"b", "y", "t", "e", "s">>
C4_Witness ==
  \E s \in Returned : LET e == Elems(s) IN \E i \in 1..s.len :
    /\ HasSuffix(e[i].Name, <<":", "b", "y", "t", "e", "s">>)
    /\ HasPrefix(e[i].Name, <<"/", "g", "c", "/", "h", "e", "a", "p", "/", "g", "o", "a", "l">>)

\* C5: no two descriptors at distinct positions of a returned sequence have
\* the same name.
C5_UniqueNames ==
  \A s \in Returned : LET e == Elems(s) IN \A i, j \in 1..s.len :
    i # j => e[i].Name # e[j].Name
C5_Witness ==
  \E s \in Returned : LET e == Elems(s) IN \E i, j \in 1..s.len : i # j /\ e[i].Kind # e[j].Kind

\* C6: every returned descriptor has a non-empty description that ends
\* with terminal punctuation.
C6_DescriptionSentence ==
  \A s \in Returned : LET e == Elems(s) IN \A i \in 1..s.len :
    LET d == e[i].Description
    IN /\ Len(d) > 0
       /\ d[Len(d)] \in {".", "!", "?"}
C6_Witness ==
  \E s \in Returned : LET e == Elems(s) IN \E i \in 1..s.len : Len(e[i].Description) > 100

\* C7: the returned descriptors of histogram kind are exactly those whose
\* description documents a distribution; they include
\* /gc/heap/allocs-by-size:bytes and /gc/pauses:seconds but not
\* /gc/heap/goal:bytes, and no distribution has a scalar kind.
IsDistribution(d) ==
  HasPrefix(d.Description, <<"D", "i", "s", "t", "r", "i", "b", "u", "t", "i", "o", "n", " ">>)
C7_HistogramFilter ==
  \A s \in Returned : LET e == Elems(s) IN
    LET hist == SelectSeq(e, LAMBDA d : d.Kind = KindFloat64Histogram)
        names == {hist[i].Name : i \in 1..Len(hist)}
    IN /\ \A i \in 1..s.len :
            (e[i].Kind = KindFloat64Histogram) <=> IsDistribution(e[i])
       /\ \A i \in 1..s.len :
            IsDistribution(e[i]) => e[i].Kind # KindUint64
       /\ gc_heap_allocs_by_size_bytes_Name \in names
       /\ gc_pauses_seconds_Name \in names
       /\ <<"/", "g", "c", "/", "h", "e", "a", "p", "/", "g", "o", "a", "l", ":",
            "b", "y", "t", "e", "s">> \notin names
C7_Witness ==
  \E s \in Returned : LET e == Elems(s) IN
    Cardinality({i \in 1..s.len : e[i].Kind = KindFloat64Histogram}) = 4

\* C8: every returned descriptor whose name ends in "-by-size:bytes" is
\* cumulative.
BySizeBytes == <<"-", "b", "y", "-", "s", "i", "z", "e", ":", "b", "y", "t", "e", "s">>
C8_BySizeCumulative ==
  \A s \in Returned : LET e == Elems(s) IN \A i \in 1..s.len :
    HasSuffix(e[i].Name, BySizeBytes) => e[i].Cumulative = TRUE
C8_Witness ==
  \E s \in Returned : LET e == Elems(s) IN
    Cardinality({i \in 1..s.len : HasSuffix(e[i].Name, BySizeBytes)}) = 2

\* C9: a returned sequence has exactly one descriptor named
\* /memory/classes/total:bytes, it is not cumulative, and some other
\* descriptor has a name starting with /memory/classes/.
MemoryClasses ==
  <<"/", "m", "e", "m", "o", "r", "y", "/", "c", "l", "a", "s", "s", "e", "s", "/">>
MemoryClassesTotal == MemoryClasses \o <<"t", "o", "t", "a", "l", ":", "b", "y", "t", "e", "s">>
C9_MemoryClassesTotal ==
  \A s \in Returned : LET e == Elems(s) IN
    LET total == {i \in 1..s.len : e[i].Name = MemoryClassesTotal}
        others == {i \in 1..s.len : /\ HasPrefix(e[i].Name, MemoryClasses)
                                    /\ i \notin total}
    IN /\ Cardinality(total) = 1
       /\ \A i \in total : e[i].Cumulative = FALSE
       /\ others # {}
C9_Witness ==
  \E s \in Returned : LET e == Elems(s) IN
    Cardinality({i \in 1..s.len : HasPrefix(e[i].Name, MemoryClasses)}) = 14

\* C10: a returned sequence is in strictly ascending byte-wise
\* lexicographic order of Name.
C10_SortedByName ==
  \A s \in Returned : LET e == Elems(s) IN \A i \in 1..(s.len - 1) :
    StringLess(e[i].Name, e[i + 1].Name)
C10_Witness ==
  \E s \in Returned : LET e == Elems(s) IN \E i \in 1..(s.len - 1) :
    /\ HasPrefix(e[i + 1].Name, SubSeq(e[i].Name, 1, 15))
    /\ e[i].Name[16] = "-"
    /\ e[i + 1].Name[16] = ":"
=============================================================================
